---------------------------- MODULE Spec2Model ----------------------------
(***************************************************************************)
(* The go-mod dependency graph pipeline of gomodgraph.plantuml.py,         *)
(* gomodgraph.pyvis.py and gomodgraph.networkx.py: build_graph, the        *)
(* prefix filters, compute_depths, filter_graph_by_max_depth, the          *)
(* isolated-node removal of main, and the consolidation of nodes and edges *)
(* in draw_and_save_graph_plantuml (simplify_label, get_project_name).     *)
(*                                                                         *)
(* A Python str is a sequence of one-character strings.  A networkx        *)
(* DiGraph is a record [node, safe, edge]: node is the insertion-ordered   *)
(* sequence of node keys, safe the safe_id attribute of every node, edge   *)
(* the sequence of (u, v) pairs in the order add_edge first saw them.      *)
(***************************************************************************)
EXTENDS Integers, Sequences, FiniteSets, TLC

VARIABLES
    pc,                    \* position of main
    input,                 \* the lines read so far, where a specification records them
    G,                     \* build_graph's DiGraph
    nodes_defined,         \* build_graph's dict: module name -> safe id
    script,                \* which script's main runs
    package_list,          \* args.packages / the split args.orgs
    hide_packages,         \* args.hide_packages
    max_depth,             \* args.max_depth: None, or <<n>> for the integer n
    remove_isolated,       \* args.remove_isolated
    allow_all,             \* main's allow_all
    allowed_safe_prefixes, \* main's allowed_safe_prefixes
    hidden_safe_prefixes,  \* main's hidden_safe_prefixes
    G_filtered,            \* main's G_filtered
    G_in,                  \* the graph the last stage was given
    depths,                \* compute_depths' dict
    queue,                 \* compute_depths' deque
    node,                  \* compute_depths' loop variable (None between pops)
    todo,                  \* successors of node the inner for loop has yet to visit
    G_after,               \* the object the last stage was given, as the stage left it
    show_version,          \* args.show_version
    consolidated_nodes,    \* draw_and_save_graph_plantuml's dict: alias -> label
    consolidated_edges,    \* draw_and_save_graph_plantuml's set of (alias, alias, comment)
    module_name,           \* a module name handed to simplify_label
    simplified,            \* simplify_label's result for module_name
    base_alias             \* get_project_name's result for simplified

vars == <<pc, input, G, nodes_defined, script, package_list, hide_packages,
          max_depth, remove_isolated, allow_all, allowed_safe_prefixes,
          hidden_safe_prefixes, G_filtered, G_in, depths, queue, node, todo,
          G_after, show_version, consolidated_nodes, consolidated_edges,
          module_name, simplified, base_alias>>

\* the variables of draw_and_save_graph_plantuml
drawing == <<show_version, consolidated_nodes, consolidated_edges,
             module_name, simplified, base_alias>>

\* None, for a value that is otherwise a str or a one-element tuple holding an int
None == <<>>

(***************************************************************************)
(* Bounds of the model.                                                    *)
(***************************************************************************)
MaxLines == 3

(***************************************************************************)
(* Strings.                                                                *)
(***************************************************************************)
Alnum ==
    {"a","b","c","d","e","f","g","h","i","j","k","l","m","n","o","p","q","r","s",
     "t","u","v","w","x","y","z","A","B","C","D","E","F","G","H","I","J","K","L",
     "M","N","O","P","Q","R","S","T","U","V","W","X","Y","Z","0","1","2","3","4",
     "5","6","7","8","9"}

Whitespace == {" ", "\t", "\n", "\r"}

Range(s) == {s[i] : i \in 1..Len(s)}

\* a substitution that lets the path separator through
safe_id_keep_slash(modname) ==
    [i \in 1..Len(modname) |->
        IF modname[i] \in Alnum \cup {"/"} THEN modname[i] ELSE "_"]

\* re.sub(r'[^A-Za-z0-9]', '_', modname)
safe_id(modname) ==
    [i \in 1..Len(modname) |-> IF modname[i] \in Alnum THEN modname[i] ELSE "_"]

RECURSIVE rstrip(_, _)
\* s.rstrip(chars)
rstrip(s, chars) ==
    IF s # <<>> /\ s[Len(s)] \in chars THEN rstrip(SubSeq(s, 1, Len(s) - 1), chars)
    ELSE s

RECURSIVE lstrip(_, _)
\* s.lstrip(chars)
lstrip(s, chars) ==
    IF s # <<>> /\ s[1] \in chars THEN lstrip(Tail(s), chars) ELSE s

\* s.strip(): leading and trailing whitespace removed
strip(s) == rstrip(lstrip(s, Whitespace), Whitespace)

\* a prefix normalized whole, trailing separators included
safe_prefix_whole(prefix) == safe_id(prefix)

\* re.sub(r'[^A-Za-z0-9]', '_', prefix.rstrip("/"))
safe_prefix(prefix) == safe_id(rstrip(prefix, {"/"}))

\* s.startswith(prefix)
startswith(s, prefix) ==
    /\ Len(prefix) <= Len(s)
    /\ SubSeq(s, 1, Len(prefix)) = prefix

RECURSIVE split(_)
\* s.split(): the maximal runs of non-whitespace characters, in order
split(s) ==
    LET t == lstrip(s, Whitespace) IN
    IF t = <<>> THEN <<>>
    ELSE LET k == CHOOSE k \in 1..Len(t) :
                      /\ \A i \in 1..k : t[i] \notin Whitespace
                      /\ (k = Len(t) \/ t[k + 1] \in Whitespace)
         IN  <<SubSeq(t, 1, k)>> \o split(SubSeq(t, k + 1, Len(t)))

(***************************************************************************)
(* networkx.DiGraph.                                                       *)
(***************************************************************************)
DiGraph == [node |-> <<>>, safe |-> <<>>, edge |-> <<>>]

Nodes(g) == Range(g.node)

Edges(g) == Range(g.edge)

\* an add_node that takes a node whose safe id is already there for that node
add_node_by_safe_id(g, n, s) ==
    IF \E m \in Nodes(g) : g.safe[m] = s THEN g
    ELSE [node |-> Append(g.node, n),
          safe |-> [m \in Nodes(g) \cup {n} |-> IF m = n THEN s ELSE g.safe[m]],
          edge |-> g.edge]

\* G.add_node(n, safe_id=s): a new key goes last, a known one keeps its place
add_node(g, n, s) ==
    [node |-> IF n \in Nodes(g) THEN g.node ELSE Append(g.node, n),
     safe |-> [m \in Nodes(g) \cup {n} |-> IF m = n THEN s ELSE g.safe[m]],
     edge |-> g.edge]

\* add_edge on a list that kept every call would hold (u, v) once per call
add_edge_multi(g, u, v) ==
    [g EXCEPT !.edge = Append(g.edge, <<u, v>>)]

\* G.add_edge(u, v) between two nodes of G: the adjacency is a dict of dicts
add_edge(g, u, v) ==
    IF <<u, v>> \in Edges(g) THEN g ELSE [g EXCEPT !.edge = Append(g.edge, <<u, v>>)]

in_degree(g, n) == Cardinality({e \in Edges(g) : e[2] = n})

out_degree(g, n) == Cardinality({e \in Edges(g) : e[1] = n})

\* G.successors(n): the keys of n's adjacency dict, in insertion order
successors(g, n) ==
    LET out == SelectSeq(g.edge, LAMBDA e : e[1] = n)
    IN  [i \in 1..Len(out) |-> out[i][2]]

(***************************************************************************)
(* build_graph: one iteration of `for line in f`.                          *)
(***************************************************************************)
\* a loop body that takes the first two tokens of any line with at least two
build_line_lenient(g, nd, line0) ==
    LET line  == strip(line0)
        parts == split(line)
    IN  IF line = <<>> \/ line[1] = "#" THEN [G |-> g, nodes_defined |-> nd]
        ELSE IF Len(parts) < 2 THEN [G |-> g, nodes_defined |-> nd]
        ELSE LET modA == parts[1]
                 modB == parts[2]
                 g1   == IF modA \in DOMAIN nd THEN g ELSE add_node(g, modA, safe_id(modA))
                 nd1  == IF modA \in DOMAIN nd THEN nd
                         ELSE [m \in DOMAIN nd \cup {modA} |->
                                  IF m = modA THEN safe_id(modA) ELSE nd[m]]
                 g2   == IF modB \in DOMAIN nd1 THEN g1 ELSE add_node(g1, modB, safe_id(modB))
                 nd2  == IF modB \in DOMAIN nd1 THEN nd1
                         ELSE [m \in DOMAIN nd1 \cup {modB} |->
                                  IF m = modB THEN safe_id(modB) ELSE nd1[m]]
             IN  [G |-> add_edge(g2, modA, modB), nodes_defined |-> nd2]

build_line(g, nd, line0) ==
    LET line  == strip(line0)
        parts == split(line)
    IN  IF line = <<>> \/ line[1] = "#" THEN [G |-> g, nodes_defined |-> nd]
        ELSE IF Len(parts) # 2 THEN [G |-> g, nodes_defined |-> nd]
        ELSE LET modA == parts[1]
                 modB == parts[2]
                 g1   == IF modA \in DOMAIN nd THEN g ELSE add_node(g, modA, safe_id(modA))
                 nd1  == IF modA \in DOMAIN nd THEN nd
                         ELSE [m \in DOMAIN nd \cup {modA} |->
                                  IF m = modA THEN safe_id(modA) ELSE nd[m]]
                 g2   == IF modB \in DOMAIN nd1 THEN g1 ELSE add_node(g1, modB, safe_id(modB))
                 nd2  == IF modB \in DOMAIN nd1 THEN nd1
                         ELSE [m \in DOMAIN nd1 \cup {modB} |->
                                  IF m = modB THEN safe_id(modB) ELSE nd1[m]]
             IN  [G |-> add_edge(g2, modA, modB), nodes_defined |-> nd2]

(***************************************************************************)
(* The lines an input file is made of.                                     *)
(***************************************************************************)
ax == <<"a", "/", "x">>
ay == <<"a", "/", "y">>
bz == <<"b", "/", "z">>
sp == <<" ">>
nl == <<"\n">>

WellFormedLines ==
    { ax \o sp \o ay \o nl,
      ay \o sp \o bz \o nl,
      ax \o sp \o bz \o nl,
      bz \o <<"\t">> \o ax,
      <<" ", " ">> \o ay \o <<" ", "\t", " ">> \o ax \o <<" ", "\r", "\n">>,
      bz \o sp \o bz \o nl }

MalformedLines ==
    { nl,
      <<" ", "#">> \o ax \o sp \o ay \o nl,
      ax \o nl,
      ax \o sp \o ay \o sp \o bz \o nl }

Lines == WellFormedLines \cup MalformedLines

\* the state build_graph starts in
InitBuild ==
    /\ pc = "build"
    /\ input = <<>>
    /\ G = DiGraph
    /\ nodes_defined = <<>>
    /\ script = "unset"
    /\ package_list = <<>>
    /\ hide_packages = <<>>
    /\ max_depth = None
    /\ remove_isolated = FALSE
    /\ allow_all = FALSE
    /\ allowed_safe_prefixes = <<>>
    /\ hidden_safe_prefixes = <<>>
    /\ G_filtered = DiGraph
    /\ G_in = DiGraph
    /\ depths = <<>>
    /\ queue = <<>>
    /\ node = None
    /\ todo = <<>>
    /\ G_after = DiGraph
    /\ show_version = FALSE
    /\ consolidated_nodes = <<>>
    /\ consolidated_edges = <<>>
    /\ module_name = <<>>
    /\ simplified = <<>>
    /\ base_alias = <<>>

\* build_graph's loop body on the next line of the file
ReadLine(line) ==
    /\ pc = "build"
    /\ LET r == build_line(G, nodes_defined, line)
       IN  /\ G' = r.G
           /\ nodes_defined' = r.nodes_defined
    /\ UNCHANGED <<pc, script, package_list, hide_packages, max_depth, remove_isolated,
                   allow_all, allowed_safe_prefixes, hidden_safe_prefixes, G_filtered,
                   G_in, G_after, depths, queue, node, todo, drawing>>

\* build_graph reading a file whose lines are kept for reference
ReadRecorded ==
    \E line \in Lines :
        /\ Len(input) < MaxLines
        /\ ReadLine(line)
        /\ input' = Append(input, line)

NextBuild == ReadRecorded

SpecBuild == InitBuild /\ [][NextBuild]_vars

(***************************************************************************)
(* Graph views.                                                            *)
(***************************************************************************)
RECURSIVE edges_from(_, _)
\* G.edges() over the nodes `order`: node by node, each adjacency in its order
edges_from(g, order) ==
    IF order = <<>> THEN <<>>
    ELSE SelectSeq(g.edge, LAMBDA e : e[1] = order[1]) \o edges_from(g, Tail(order))

\* G.edges()
edges_view(g) == edges_from(g, g.node)

\* the orders in which a Python set of strings can be iterated
Perms(S) ==
    {s \in [1..Cardinality(S) -> S] :
        \A i \in 1..Cardinality(S) : \A j \in 1..Cardinality(S) : i # j => s[i] # s[j]}

\* `needle in haystack` for a list
Contains(list, x) == \E i \in 1..Len(list) : list[i] = x

(***************************************************************************)
(* filter_graph_by_packages and filter_graph_by_orgs.                      *)
(***************************************************************************)
\* all(...) where the code says any(...)
all_prefix(safe, prefixes) ==
    \A i \in 1..Len(prefixes) : startswith(safe, prefixes[i])

\* any(safe.startswith(prefix) for prefix in prefixes)
any_prefix(safe, prefixes) ==
    \E i \in 1..Len(prefixes) : startswith(safe, prefixes[i])

\* allowed_nodes with allow_all never looked at
allowed_nodes_no_all(g, nd, allowed, hidden, all) ==
    LET a0 == {n \in DOMAIN nd : any_prefix(nd[n], allowed)}
    IN  IF hidden # <<>> THEN {n \in a0 : ~any_prefix(nd[n], hidden)} ELSE a0

\* allowed_nodes with the hidden prefixes never applied
allowed_nodes_no_hide(g, nd, allowed, hidden, all) ==
    IF all THEN Nodes(g)
    ELSE {n \in DOMAIN nd : any_prefix(nd[n], allowed)}

\* the set allowed_nodes of filter_graph_by_packages
allowed_nodes(g, nd, allowed, hidden, all) ==
    LET a0 == IF all THEN Nodes(g)
              ELSE {n \in DOMAIN nd : any_prefix(nd[n], allowed)}
    IN  IF hidden # <<>> THEN {n \in a0 : ~any_prefix(nd[n], hidden)} ELSE a0

\* a graph filled with every edge that has its source in `keep`
induced_by_source(g, nd, keep, order) ==
    LET kept == SelectSeq(edges_view(g), LAMBDA e : e[1] \in keep)
    IN  [node |-> order, safe |-> [n \in keep |-> nd[n]], edge |-> kept]

\* the new DiGraph both filters fill: the nodes in the order the set `keep` is
\* iterated, then the edges of G.edges() that join two of them
induced(g, nd, keep, order) ==
    LET kept == SelectSeq(edges_view(g), LAMBDA e : e[1] \in keep /\ e[2] \in keep)
    IN  [node |-> order, safe |-> [n \in keep |-> nd[n]], edge |-> kept]

\* filter_graph_by_packages, `order` being the iteration order of allowed_nodes
filter_graph_by_packages(g, nd, allowed, hidden, all, order) ==
    induced(g, nd, allowed_nodes(g, nd, allowed, hidden, all), order)

\* a filter by organisations that never looks at allow_all
filter_graph_by_orgs_no_all(g, nd, allowed, all, order) ==
    induced(g, nd, {n \in DOMAIN nd : any_prefix(nd[n], allowed)}, order)

\* filter_graph_by_orgs: G.copy() under allow_all, else the allowed nodes
filter_graph_by_orgs(g, nd, allowed, all, order) ==
    IF all THEN g
    ELSE induced(g, nd, {n \in DOMAIN nd : any_prefix(nd[n], allowed)}, order)


(***************************************************************************)
(* compute_depths.  Its locals are the record [depths, queue, node, todo]: *)
(* node is the node popped last (None outside the for loop) and todo the   *)
(* successors of node the for loop has yet to visit.                       *)
(***************************************************************************)
\* roots with no fallback for a graph where every node has an incoming edge
roots_no_fallback(g) == SelectSeq(g.node, LAMBDA n : in_degree(g, n) = 0)

\* roots = [node for node in G.nodes() if G.in_degree(node) == 0], or all nodes
roots(g) ==
    LET r == SelectSeq(g.node, LAMBDA n : in_degree(g, n) = 0)
    IN  IF r = <<>> THEN g.node ELSE r

\* the locals after `for r in roots: depths[r] = 0; queue.append(r)`
depths_start(g) ==
    [depths |-> [n \in Range(roots(g)) |-> 0],
     queue  |-> roots(g),
     node   |-> None,
     todo   |-> <<>>]

\* node = queue.pop(): the node appended last is taken first
depths_pop_last(g, st) ==
    LET last == st.queue[Len(st.queue)]
    IN  [depths |-> st.depths,
         queue  |-> SubSeq(st.queue, 1, Len(st.queue) - 1),
         node   |-> IF successors(g, last) = <<>> THEN None ELSE last,
         todo   |-> successors(g, last)]

\* node = queue[0]: the node is looked at and left in the queue
depths_pop_peek(g, st) ==
    [depths |-> st.depths,
     queue  |-> st.queue,
     node   |-> IF successors(g, Head(st.queue)) = <<>> THEN None ELSE Head(st.queue),
     todo   |-> successors(g, Head(st.queue))]

\* node = queue.popleft(), and the for loop over G.successors(node) begins
depths_pop(g, st) ==
    [depths |-> st.depths,
     queue  |-> Tail(st.queue),
     node   |-> IF successors(g, Head(st.queue)) = <<>> THEN None ELSE Head(st.queue),
     todo   |-> successors(g, Head(st.queue))]

\* d[k] = v on a dict
dict_set(d, k, v) == [m \in DOMAIN d \cup {k} |-> IF m = k THEN v ELSE d[m]]

\* an iteration that records the neighbor two levels below node
depths_visit_two_below(g, st) ==
    LET neighbor == Head(st.todo)
        rest     == Tail(st.todo)
        relax    == \/ neighbor \notin DOMAIN st.depths
                    \/ st.depths[st.node] + 2 < st.depths[neighbor]
    IN  [depths |-> IF relax THEN dict_set(st.depths, neighbor, st.depths[st.node] + 2)
                    ELSE st.depths,
         queue  |-> IF relax THEN Append(st.queue, neighbor) ELSE st.queue,
         node   |-> IF rest = <<>> THEN None ELSE st.node,
         todo   |-> rest]

\* one iteration of `for neighbor in G.successors(node)`
depths_visit(g, st) ==
    LET neighbor == Head(st.todo)
        rest     == Tail(st.todo)
        relax    == \/ neighbor \notin DOMAIN st.depths
                    \/ st.depths[st.node] + 1 < st.depths[neighbor]
    IN  [depths |-> IF relax THEN dict_set(st.depths, neighbor, st.depths[st.node] + 1)
                    ELSE st.depths,
         queue  |-> IF relax THEN Append(st.queue, neighbor) ELSE st.queue,
         node   |-> IF rest = <<>> THEN None ELSE st.node,
         todo   |-> rest]

RECURSIVE depths_run(_, _)
\* the while loop run to its end
depths_run(g, st) ==
    IF st.node # None THEN depths_run(g, depths_visit(g, st))
    ELSE IF st.queue # <<>> THEN depths_run(g, depths_pop(g, st))
    ELSE st

\* compute_depths(G)
compute_depths(g) == depths_run(g, depths_start(g)).depths

\* the nodes of depth strictly below the bound
nodes_in_range_strict(d, md) == {n \in DOMAIN d : d[n] < md}

\* the nodes of depth 1 to the bound, the roots left out
nodes_in_range_nonroot(d, md) == {n \in DOMAIN d : 0 < d[n] /\ d[n] <= md}

\* {node for node, depth in depths.items() if depth <= max_depth}
nodes_in_range(d, md) == {n \in DOMAIN d : d[n] <= md}

\* the orders G.subgraph(keep).copy() can list its nodes in: networkx iterates
\* the set `keep` when it is less than half of G, and G's own nodes otherwise
subgraph_orders(g, keep) ==
    IF 2 * Cardinality(keep) < Len(g.node) THEN Perms(keep \cap Nodes(g))
    ELSE {SelectSeq(g.node, LAMBDA n : n \in keep)}

\* a copy of the kept nodes that leaves every edge behind
subgraph_no_edges(g, keep, order) ==
    [node |-> order,
     safe |-> [n \in keep \cap Nodes(g) |-> g.safe[n]],
     edge |-> <<>>]

\* G.subgraph(keep).copy() with its nodes listed in `order`
subgraph(g, keep, order) ==
    [node |-> order,
     safe |-> [n \in keep \cap Nodes(g) |-> g.safe[n]],
     edge |-> SelectSeq(edges_from(g, order), LAMBDA e : e[1] \in keep /\ e[2] \in keep)]

\* a max-depth filter that takes the depths from the graph build_graph made
filter_graph_by_max_depth_raw(g, md, order) ==
    subgraph(g, nodes_in_range(compute_depths(G), md), order)

\* filter_graph_by_max_depth(G, max_depth)
filter_graph_by_max_depth(g, md, order) ==
    subgraph(g, nodes_in_range(compute_depths(g), md), order)

\* the nodes of g that have no edge in the graph build_graph made
isolates_raw(g) == {n \in Nodes(g) : in_degree(G, n) + out_degree(G, n) = 0}

\* the nodes with no edge to or from another node
isolates_no_self(g) ==
    {n \in Nodes(g) : \A e \in Edges(g) : (e[1] = n \/ e[2] = n) => e[1] = e[2]}

\* nx.isolates(G): the nodes of degree 0 (a self-loop counts)
isolates(g) == {n \in Nodes(g) : in_degree(g, n) + out_degree(g, n) = 0}

\* a removal that leaves the graph as it was
remove_nodes_from_nothing(g, drop) == g

\* G.remove_nodes_from(nodes)
remove_nodes_from(g, drop) ==
    [node |-> SelectSeq(g.node, LAMBDA n : n \notin drop),
     safe |-> [n \in Nodes(g) \ drop |-> g.safe[n]],
     edge |-> SelectSeq(g.edge, LAMBDA e : e[1] \notin drop /\ e[2] \notin drop)]

(***************************************************************************)
(* simplify_label and get_project_name.                                    *)
(***************************************************************************)
host == <<"g", "i", "t", "h", "u", "b", ".", "c", "o", "m", "/">>

\* re.sub(r'^github\.com/', '', s)
sub_host(s) ==
    IF startswith(s, host) THEN SubSeq(s, Len(host) + 1, Len(s)) ELSE s

\* s.find(ch) + 1: the place of the first ch in s, 0 when there is none
find(s, ch) ==
    IF ch \in Range(s)
    THEN CHOOSE i \in 1..Len(s) : s[i] = ch /\ \A j \in 1..(i - 1) : s[j] # ch
    ELSE 0

\* s.split(ch, 1)[0], which is also s.split(ch)[0]
before(s, ch) == IF find(s, ch) = 0 THEN s ELSE SubSeq(s, 1, find(s, ch) - 1)

\* s.split(ch, 1)[1] for an s that holds ch
after(s, ch) == SubSeq(s, find(s, ch) + 1, Len(s))

RECURSIVE sub_runs(_)
\* re.sub(r'[^A-Za-z0-9]+', '_', s)
sub_runs(s) ==
    IF s = <<>> THEN <<>>
    ELSE IF s[1] \in Alnum THEN <<s[1]>> \o sub_runs(Tail(s))
    ELSE IF Len(s) > 1 /\ s[2] \notin Alnum THEN sub_runs(Tail(s))
    ELSE <<"_">> \o sub_runs(Tail(s))

\* simplify_label(module_name, package_prefix)
simplify_label(name, package_prefix) ==
    LET s1 == sub_host(name)
        s2 == IF "@" \in Range(s1) THEN before(s1, "@") ELSE s1
        s3 == rstrip(lstrip(s2, {"/"}), {"/"})
    IN  IF "/" \in Range(s3)
        THEN before(s3, "/") \o <<" ", "|", " ">> \o after(s3, "/")
        ELSE s3

\* a project name taken from the whole label
get_project_name_whole(name, package_prefix) ==
    LET m2 == sub_host(name)
        m3 == strip(before(m2, "@"))
    IN  rstrip(lstrip(sub_runs(m3), {"_"}), {"_"}) \o <<"_">>

\* get_project_name(module_name, package_prefix)
get_project_name(name, package_prefix) ==
    LET m1 == IF "|" \in Range(name) THEN strip(before(after(name, "|"), "|")) ELSE name
        m2 == sub_host(m1)
        m3 == strip(before(m2, "@"))
    IN  rstrip(lstrip(sub_runs(m3), {"_"}), {"_"}) \o <<"_">>

(***************************************************************************)
(* draw_and_save_graph_plantuml: the consolidation of nodes and edges.  A  *)
(* Python set is the sequence of its members in the order they were added. *)
(***************************************************************************)
RECURSIVE consolidate_nodes_last(_, _)
\* a loop whose later node replaces the label its alias already has
consolidate_nodes_last(nodes, package_prefix) ==
    IF nodes = <<>> THEN <<>>
    ELSE LET d     == consolidate_nodes_last(SubSeq(nodes, 1, Len(nodes) - 1),
                                             package_prefix)
             label == simplify_label(nodes[Len(nodes)], package_prefix)
             alias == get_project_name(label, package_prefix)
         IN  dict_set(d, alias, label)

RECURSIVE consolidate_nodes(_, _)
\* consolidated_nodes after `for node in G.nodes()` has visited `nodes`
consolidate_nodes(nodes, package_prefix) ==
    IF nodes = <<>> THEN <<>>
    ELSE LET d     == consolidate_nodes(SubSeq(nodes, 1, Len(nodes) - 1), package_prefix)
             label == simplify_label(nodes[Len(nodes)], package_prefix)
             alias == get_project_name(label, package_prefix)
         IN  IF alias \in DOMAIN d THEN d ELSE dict_set(d, alias, label)

\* a list that takes every element it is given
set_add_again(set, x) == Append(set, x)

\* set.add(x)
set_add(set, x) == IF Contains(set, x) THEN set ELSE Append(set, x)

\* edge_comment: f" : {version[:10]}" when a version is shown, else ""
edge_comment(v, show) ==
    IF show /\ "@" \in Range(v)
    THEN LET version == after(v, "@")
             n       == IF Len(version) < 10 THEN Len(version) ELSE 10
         IN  <<" ", ":", " ">> \o SubSeq(version, 1, n)
    ELSE <<>>

RECURSIVE consolidate_edges_loops(_, _, _)
\* a loop with no `continue` for an edge whose two aliases are equal
consolidate_edges_loops(edges, package_prefix, show) ==
    IF edges = <<>> THEN <<>>
    ELSE LET s       == consolidate_edges_loops(SubSeq(edges, 1, Len(edges) - 1),
                                                package_prefix, show)
             u       == edges[Len(edges)][1]
             v       == edges[Len(edges)][2]
             u_alias == get_project_name(simplify_label(u, package_prefix), package_prefix)
             v_alias == get_project_name(simplify_label(v, package_prefix), package_prefix)
         IN  set_add(s, <<u_alias, v_alias, edge_comment(v, show)>>)

RECURSIVE consolidate_edges(_, _, _)
\* consolidated_edges after `for u, v in G.edges()` has visited `edges`
consolidate_edges(edges, package_prefix, show) ==
    IF edges = <<>> THEN <<>>
    ELSE LET s       == consolidate_edges(SubSeq(edges, 1, Len(edges) - 1),
                                          package_prefix, show)
             u       == edges[Len(edges)][1]
             v       == edges[Len(edges)][2]
             u_alias == get_project_name(simplify_label(u, package_prefix), package_prefix)
             v_alias == get_project_name(simplify_label(v, package_prefix), package_prefix)
         IN  IF u_alias = v_alias THEN s
             ELSE set_add(s, <<u_alias, v_alias, edge_comment(v, show)>>)


(***************************************************************************)
(* main: the command line.                                                 *)
(***************************************************************************)
star == <<"*">>

\* values of --packages (plantuml, pyvis)
PackageArgs ==
    { <<>>,
      <<<<"a">>, star>>,
      <<<<"a", "/">>>>,
      <<ax, <<"b">>>> }

\* values of --hide-packages (plantuml, pyvis)
HideArgs ==
    { <<>>,
      <<<<"c">>, <<"b", "/">>>> }

\* values of the orgs argument (networkx), split at its commas
OrgsArgs ==
    { <<<<>>>>,
      <<star>>,
      <<<<"a", "/">>, <<" ">>>>,
      <<<<" ">> \o ax, <<" ", "b", " ">>>> }

\* values of --max-depth
MaxDepthArgs == {None, <<-1>>, <<0>>, <<1>>, <<3>>}

\* [o.strip() for o in args.orgs.split(",") if o.strip()]
org_list(items) ==
    LET kept == SelectSeq(items, LAMBDA o : strip(o) # <<>>)
    IN  [i \in 1..Len(kept) |-> strip(kept[i])]

\* [safe_prefix(pkg) for pkg in package_list]
safe_prefixes(list) == [i \in 1..Len(list) |-> safe_prefix(list[i])]

\* the state main starts in
Init ==
    /\ pc = "start"
    /\ input = <<>>
    /\ G = DiGraph
    /\ nodes_defined = <<>>
    /\ script = "unset"
    /\ package_list = <<>>
    /\ hide_packages = <<>>
    /\ max_depth = None
    /\ remove_isolated = FALSE
    /\ allow_all = FALSE
    /\ allowed_safe_prefixes = <<>>
    /\ hidden_safe_prefixes = <<>>
    /\ G_filtered = DiGraph
    /\ G_in = DiGraph
    /\ depths = <<>>
    /\ queue = <<>>
    /\ node = None
    /\ todo = <<>>
    /\ G_after = DiGraph
    /\ show_version = FALSE
    /\ consolidated_nodes = <<>>
    /\ consolidated_edges = <<>>
    /\ module_name = <<>>
    /\ simplified = <<>>
    /\ base_alias = <<>>

\* main of gomodgraph.plantuml.py and gomodgraph.pyvis.py up to build_graph
ParseArgsPackages ==
    \E pk \in PackageArgs, hide \in HideArgs, md \in MaxDepthArgs, iso \in BOOLEAN :
        LET pl == IF pk # <<>> THEN pk ELSE <<star>> IN
        /\ pc = "start"
        /\ pc' = "build"
        /\ script' = "plantuml"
        /\ package_list' = pl
        /\ hide_packages' = hide
        /\ max_depth' = md
        /\ remove_isolated' = iso
        /\ allow_all' = Contains(pl, star)
        /\ allowed_safe_prefixes' = IF Contains(pl, star) THEN <<>> ELSE safe_prefixes(pl)
        /\ hidden_safe_prefixes' = IF hide # <<>> THEN safe_prefixes(hide) ELSE <<>>
        /\ UNCHANGED <<input, G, nodes_defined, G_filtered, G_in, G_after, depths, queue,
                       node, todo, drawing>>

\* main of gomodgraph.networkx.py up to build_graph
ParseArgsOrgs ==
    \E orgs \in OrgsArgs, md \in MaxDepthArgs, iso \in BOOLEAN :
        LET ol == org_list(orgs) IN
        /\ pc = "start"
        /\ pc' = "build"
        /\ script' = "networkx"
        /\ package_list' = ol
        /\ hide_packages' = <<>>
        /\ max_depth' = md
        /\ remove_isolated' = iso
        /\ allow_all' = Contains(ol, star)
        /\ allowed_safe_prefixes' = IF Contains(ol, star) THEN <<>> ELSE safe_prefixes(ol)
        /\ hidden_safe_prefixes' = <<>>
        /\ UNCHANGED <<input, G, nodes_defined, G_filtered, G_in, G_after, depths, queue,
                       node, todo, drawing>>

\* build_graph reading the next line of a file of at most MaxLines edges
ReadFile ==
    \E line \in Lines :
        /\ Len(G.edge) < MaxLines
        /\ ReadLine(line)
        /\ UNCHANGED input

\* the file ends and build_graph returns
EndOfFile ==
    /\ pc = "build"
    /\ script # "unset"
    /\ pc' = "filter"
    /\ UNCHANGED <<input, G, nodes_defined, script, package_list, hide_packages, max_depth,
                   remove_isolated, allow_all, allowed_safe_prefixes, hidden_safe_prefixes,
                   G_filtered, G_in, G_after, depths, queue, node, todo, drawing>>

\* G_filtered = filter_graph_by_packages(...)
FilterPackages ==
    /\ pc = "filter"
    /\ script \in {"plantuml", "pyvis"}
    /\ \E order \in Perms(allowed_nodes(G, nodes_defined, allowed_safe_prefixes,
                                        hidden_safe_prefixes, allow_all)) :
          G_filtered' = filter_graph_by_packages(G, nodes_defined, allowed_safe_prefixes,
                                                 hidden_safe_prefixes, allow_all, order)
    /\ G_in' = G
    /\ G_after' = G
    /\ pc' = "max_depth"
    /\ UNCHANGED <<input, G, nodes_defined, script, package_list, hide_packages, max_depth,
                   remove_isolated, allow_all, allowed_safe_prefixes, hidden_safe_prefixes,
                   depths, queue, node, todo, drawing>>

\* G_filtered = filter_graph_by_orgs(...)
FilterOrgs ==
    /\ pc = "filter"
    /\ script = "networkx"
    /\ \E order \in Perms({n \in DOMAIN nodes_defined :
                              any_prefix(nodes_defined[n], allowed_safe_prefixes)}) :
          G_filtered' = filter_graph_by_orgs(G, nodes_defined, allowed_safe_prefixes,
                                             allow_all, order)
    /\ G_in' = G
    /\ G_after' = G
    /\ pc' = "max_depth"
    /\ UNCHANGED <<input, G, nodes_defined, script, package_list, hide_packages, max_depth,
                   remove_isolated, allow_all, allowed_safe_prefixes, hidden_safe_prefixes,
                   depths, queue, node, todo, drawing>>

\* if args.max_depth is not None: G_filtered = filter_graph_by_max_depth(...)
FilterMaxDepth ==
    /\ pc = "max_depth"
    /\ max_depth # None
    /\ depths' = compute_depths(G_filtered)
    /\ \E order \in subgraph_orders(G_filtered,
                                    nodes_in_range(compute_depths(G_filtered), max_depth[1])) :
          G_filtered' = filter_graph_by_max_depth(G_filtered, max_depth[1], order)
    /\ G_in' = G_filtered
    /\ G_after' = G_filtered
    /\ pc' = "isolated"
    /\ UNCHANGED <<input, G, nodes_defined, script, package_list, hide_packages, max_depth,
                   remove_isolated, allow_all, allowed_safe_prefixes, hidden_safe_prefixes,
                   queue, node, todo, drawing>>

\* args.max_depth is None
SkipMaxDepth ==
    /\ pc = "max_depth"
    /\ max_depth = None
    /\ pc' = "isolated"
    /\ UNCHANGED <<input, G, nodes_defined, script, package_list, hide_packages, max_depth,
                   remove_isolated, allow_all, allowed_safe_prefixes, hidden_safe_prefixes,
                   G_filtered, G_in, G_after, depths, queue, node, todo, drawing>>

\* a removal that stops at a graph without nodes
RemoveIsolatedNonEmpty ==
    /\ pc = "isolated"
    /\ remove_isolated
    /\ G_filtered.node # <<>>
    /\ G_filtered' = remove_nodes_from(G_filtered, isolates(G_filtered))
    /\ G_in' = G_filtered
    /\ G_after' = G_filtered'
    /\ pc' = "draw"
    /\ UNCHANGED <<input, G, nodes_defined, script, package_list, hide_packages, max_depth,
                   remove_isolated, allow_all, allowed_safe_prefixes, hidden_safe_prefixes,
                   depths, queue, node, todo, drawing>>

\* if args.remove_isolated: G_filtered.remove_nodes_from(list(nx.isolates(G_filtered))),
\* which changes the object G_filtered names and returns nothing
RemoveIsolated ==
    /\ pc = "isolated"
    /\ remove_isolated
    /\ G_filtered' = IF isolates(G_filtered) # {}
                     THEN remove_nodes_from(G_filtered, isolates(G_filtered))
                     ELSE G_filtered
    /\ G_in' = G_filtered
    /\ G_after' = G_filtered'
    /\ pc' = "draw"
    /\ UNCHANGED <<input, G, nodes_defined, script, package_list, hide_packages, max_depth,
                   remove_isolated, allow_all, allowed_safe_prefixes, hidden_safe_prefixes,
                   depths, queue, node, todo, drawing>>

\* args.remove_isolated is not set
SkipRemoveIsolated ==
    /\ pc = "isolated"
    /\ ~remove_isolated
    /\ pc' = "draw"
    /\ UNCHANGED <<input, G, nodes_defined, script, package_list, hide_packages, max_depth,
                   remove_isolated, allow_all, allowed_safe_prefixes, hidden_safe_prefixes,
                   G_filtered, G_in, G_after, depths, queue, node, todo, drawing>>

\* package_list[0] if not allow_all else ""
allowed_package_prefix == IF allow_all THEN <<>> ELSE package_list[1]

\* draw_and_save_graph_plantuml(G_filtered, nodes_defined, allowed_package_prefix,
\* args.output, args.show_version): the flag is read here, where main passes it on
DrawPlantuml ==
    \E show \in BOOLEAN :
        /\ pc = "draw"
        /\ script = "plantuml"
        /\ show_version' = show
        /\ consolidated_nodes' = consolidate_nodes(G_filtered.node, allowed_package_prefix)
        /\ consolidated_edges' = consolidate_edges(edges_view(G_filtered),
                                                   allowed_package_prefix, show)
        /\ pc' = "done"
        /\ UNCHANGED <<input, G, nodes_defined, script, package_list, hide_packages,
                       max_depth, remove_isolated, allow_all, allowed_safe_prefixes,
                       hidden_safe_prefixes, G_filtered, G_in, G_after, depths, queue,
                       node, todo, module_name, simplified, base_alias>>

Next ==
    \/ ParseArgsPackages
    \/ ParseArgsOrgs
    \/ ReadFile
    \/ EndOfFile
    \/ FilterPackages
    \/ FilterOrgs
    \/ FilterMaxDepth
    \/ SkipMaxDepth
    \/ RemoveIsolated
    \/ SkipRemoveIsolated
    \/ DrawPlantuml

Spec == Init /\ [][Next]_vars


(***************************************************************************)
(* filter_graph_by_max_depth(G, max_depth) on a graph build_graph made,    *)
(* compute_depths taken one loop iteration at a time.                      *)
(***************************************************************************)
\* the locals of compute_depths, as a record
locals == [depths |-> depths, queue |-> queue, node |-> node, todo |-> todo]

\* filter_graph_by_max_depth is called on the graph built
CallFilterMaxDepth ==
    \E md \in MaxDepthArgs \ {None} :
        /\ pc = "build"
        /\ script = "unset"
        /\ max_depth' = md
        /\ G_filtered' = G
        /\ pc' = "roots"
        /\ UNCHANGED <<input, G, nodes_defined, script, package_list, hide_packages,
                       remove_isolated, allow_all, allowed_safe_prefixes,
                       hidden_safe_prefixes, G_in, G_after, depths, queue, node, todo, drawing>>

\* compute_depths up to its while loop
DepthsRoots ==
    /\ pc = "roots"
    /\ depths' = depths_start(G_filtered).depths
    /\ queue' = depths_start(G_filtered).queue
    /\ pc' = "while"
    /\ UNCHANGED <<input, G, nodes_defined, script, package_list, hide_packages, max_depth,
                   remove_isolated, allow_all, allowed_safe_prefixes, hidden_safe_prefixes,
                   G_filtered, G_in, G_after, node, todo, drawing>>

\* while queue: node = queue.popleft()
DepthsPop ==
    /\ pc = "while"
    /\ node = None
    /\ queue # <<>>
    /\ depths' = depths_pop(G_filtered, locals).depths
    /\ queue' = depths_pop(G_filtered, locals).queue
    /\ node' = depths_pop(G_filtered, locals).node
    /\ todo' = depths_pop(G_filtered, locals).todo
    /\ UNCHANGED <<pc, input, G, nodes_defined, script, package_list, hide_packages,
                   max_depth, remove_isolated, allow_all, allowed_safe_prefixes,
                   hidden_safe_prefixes, G_filtered, G_in, G_after, drawing>>

\* for neighbor in G.successors(node): one iteration
DepthsVisit ==
    /\ pc = "while"
    /\ node # None
    /\ depths' = depths_visit(G_filtered, locals).depths
    /\ queue' = depths_visit(G_filtered, locals).queue
    /\ node' = depths_visit(G_filtered, locals).node
    /\ todo' = depths_visit(G_filtered, locals).todo
    /\ UNCHANGED <<pc, input, G, nodes_defined, script, package_list, hide_packages,
                   max_depth, remove_isolated, allow_all, allowed_safe_prefixes,
                   hidden_safe_prefixes, G_filtered, G_in, G_after, drawing>>

\* the queue is empty: compute_depths returns and the subgraph is copied
DepthsReturn ==
    /\ pc = "while"
    /\ node = None
    /\ queue = <<>>
    /\ \E order \in subgraph_orders(G_filtered, nodes_in_range(depths, max_depth[1])) :
          G_filtered' = subgraph(G_filtered, nodes_in_range(depths, max_depth[1]), order)
    /\ G_in' = G_filtered
    /\ G_after' = G_filtered
    /\ pc' = "isolated"
    /\ UNCHANGED <<input, G, nodes_defined, script, package_list, hide_packages, max_depth,
                   remove_isolated, allow_all, allowed_safe_prefixes, hidden_safe_prefixes,
                   depths, queue, node, todo, drawing>>

NextDepth ==
    \/ ReadFile
    \/ CallFilterMaxDepth
    \/ DepthsRoots
    \/ DepthsPop
    \/ DepthsVisit
    \/ DepthsReturn

SpecDepth == InitBuild /\ [][NextDepth]_vars

\* compute_depths is sequential code: once called, its next statement runs
SpecDepthFair ==
    SpecDepth /\ WF_vars(DepthsRoots \/ DepthsPop \/ DepthsVisit \/ DepthsReturn)


(***************************************************************************)
(* filter_graph_by_packages called as two stages on a graph build_graph    *)
(* made: with the allowed prefixes alone, and with the hidden prefixes     *)
(* alone (allow_all=True), in either order.                                *)
(***************************************************************************)
\* the prefix lists are prepared as main prepares them
CallFilters ==
    \E pk \in PackageArgs, hide \in HideArgs :
        LET pl == IF pk # <<>> THEN pk ELSE <<star>> IN
        /\ pc = "build"
        /\ script = "unset"
        /\ pc' = "filter"
        /\ package_list' = pl
        /\ hide_packages' = hide
        /\ allow_all' = Contains(pl, star)
        /\ allowed_safe_prefixes' = IF Contains(pl, star) THEN <<>> ELSE safe_prefixes(pl)
        /\ hidden_safe_prefixes' = IF hide # <<>> THEN safe_prefixes(hide) ELSE <<>>
        /\ UNCHANGED <<input, G, nodes_defined, script, max_depth, remove_isolated,
                       G_filtered, G_in, G_after, depths, queue, node, todo, drawing>>

\* filter_graph_by_packages(g, nodes_defined, allowed_safe_prefixes, [], allow_all)
\* on the graph built, or on the graph the hidden prefixes left
AllowOnly ==
    /\ pc \in {"filter", "hidden"}
    /\ LET g == IF pc = "filter" THEN G ELSE G_filtered IN
       /\ \E order \in Perms(allowed_nodes(g, nodes_defined, allowed_safe_prefixes,
                                           <<>>, allow_all)) :
             G_filtered' = filter_graph_by_packages(g, nodes_defined, allowed_safe_prefixes,
                                                    <<>>, allow_all, order)
       /\ G_in' = g
       /\ G_after' = g
    /\ pc' = IF pc = "filter" THEN "allowed" ELSE "hidden_allowed"
    /\ UNCHANGED <<input, G, nodes_defined, script, package_list, hide_packages, max_depth,
                   remove_isolated, allow_all, allowed_safe_prefixes, hidden_safe_prefixes,
                   depths, queue, node, todo, drawing>>

\* filter_graph_by_packages(g, nodes_defined, [], hidden_safe_prefixes, True)
\* on the graph built, or on the graph the allowed prefixes left
HideOnly ==
    /\ pc \in {"filter", "allowed"}
    /\ LET g == IF pc = "filter" THEN G ELSE G_filtered IN
       /\ \E order \in Perms(allowed_nodes(g, nodes_defined, <<>>,
                                           hidden_safe_prefixes, TRUE)) :
             G_filtered' = filter_graph_by_packages(g, nodes_defined, <<>>,
                                                    hidden_safe_prefixes, TRUE, order)
       /\ G_in' = g
       /\ G_after' = g
    /\ pc' = IF pc = "filter" THEN "hidden" ELSE "allowed_hidden"
    /\ UNCHANGED <<input, G, nodes_defined, script, package_list, hide_packages, max_depth,
                   remove_isolated, allow_all, allowed_safe_prefixes, hidden_safe_prefixes,
                   depths, queue, node, todo, drawing>>

NextOrder ==
    \/ ReadFile
    \/ CallFilters
    \/ AllowOnly
    \/ HideOnly

SpecOrder == InitBuild /\ [][NextOrder]_vars


(***************************************************************************)
(* main of gomodgraph.plantuml.py on a file of module names with versions, *)
(* two of them the same project in two versions and one the same project   *)
(* of another organization.                                                *)
(***************************************************************************)
MaxVersioned == 2

x1 == host \o <<"a", "/", "x", "@", "v", "1">>
x2 == host \o <<"a", "/", "x", "@", "v", "2">>
y1 == host \o <<"a", "/", "y", "@", "v", "1">>
bx == <<"b", "/", "x">>

VersionedLines ==
    { x1 \o sp \o y1 \o nl,
      x2 \o sp \o y1 \o nl,
      y1 \o sp \o x1 \o nl,
      y1 \o sp \o x2 \o nl,
      x1 \o sp \o x2 \o nl,
      bx \o sp \o y1 \o nl,
      y1 \o sp \o y1 \o nl }

\* values of --packages for such a file
VersionedPackageArgs == { <<>>, <<host \o <<"a">>>> }

\* main up to build_graph
ParseArgsVersioned ==
    \E pk \in VersionedPackageArgs, md \in {None, <<1>>}, iso \in BOOLEAN :
        LET pl == IF pk # <<>> THEN pk ELSE <<star>> IN
        /\ pc = "start"
        /\ pc' = "build"
        /\ script' = "plantuml"
        /\ package_list' = pl
        /\ hide_packages' = <<>>
        /\ max_depth' = md
        /\ remove_isolated' = iso
        /\ allow_all' = Contains(pl, star)
        /\ allowed_safe_prefixes' = IF Contains(pl, star) THEN <<>> ELSE safe_prefixes(pl)
        /\ hidden_safe_prefixes' = <<>>
        /\ UNCHANGED <<input, G, nodes_defined, G_filtered, G_in, G_after, depths, queue,
                       node, todo, drawing>>

\* build_graph reading the next line of a file of at most MaxVersioned lines
ReadVersioned ==
    \E line \in VersionedLines :
        /\ Len(input) < MaxVersioned
        /\ ReadLine(line)
        /\ input' = Append(input, line)

NextDraw ==
    \/ ParseArgsVersioned
    \/ ReadVersioned
    \/ EndOfFile
    \/ FilterPackages
    \/ FilterMaxDepth
    \/ SkipMaxDepth
    \/ RemoveIsolated
    \/ SkipRemoveIsolated
    \/ DrawPlantuml

SpecDraw == Init /\ [][NextDraw]_vars


(***************************************************************************)
(* simplify_label and get_project_name on one module name, as the loop     *)
(* over G.nodes() calls them.                                              *)
(***************************************************************************)
MaxPieces == 4

\* what a module name is put together from
Pieces == {host, <<"a">>, <<"1">>, <<"/">>, <<"@">>, <<"|">>, <<"-">>, <<"_">>}

RECURSIVE Texts(_)
\* the module names of at most k pieces
Texts(k) ==
    IF k = 0 THEN {<<>>}
    ELSE Texts(k - 1) \cup {t \o p : t \in Texts(k - 1), p \in Pieces}

\* a node of the graph is about to be visited, main run without --packages
InitLabel ==
    /\ pc = "label"
    /\ input = <<>>
    /\ G = DiGraph
    /\ nodes_defined = <<>>
    /\ script = "unset"
    /\ package_list = <<star>>
    /\ hide_packages = <<>>
    /\ max_depth = None
    /\ remove_isolated = FALSE
    /\ allow_all = TRUE
    /\ allowed_safe_prefixes = <<>>
    /\ hidden_safe_prefixes = <<>>
    /\ G_filtered = DiGraph
    /\ G_in = DiGraph
    /\ depths = <<>>
    /\ queue = <<>>
    /\ node = None
    /\ todo = <<>>
    /\ G_after = DiGraph
    /\ show_version = FALSE
    /\ consolidated_nodes = <<>>
    /\ consolidated_edges = <<>>
    /\ module_name \in Texts(MaxPieces) \cup {x1, x2, y1, bx}
    /\ simplified = <<>>
    /\ base_alias = <<>>

\* simplified = simplify_label(node, allowed_package_prefix)
SimplifyLabel ==
    /\ pc = "label"
    /\ simplified' = simplify_label(module_name, allowed_package_prefix)
    /\ pc' = "alias"
    /\ UNCHANGED <<input, G, nodes_defined, script, package_list, hide_packages, max_depth,
                   remove_isolated, allow_all, allowed_safe_prefixes, hidden_safe_prefixes,
                   G_filtered, G_in, G_after, depths, queue, node, todo, show_version,
                   consolidated_nodes, consolidated_edges, module_name, base_alias>>

\* base_alias = get_project_name(simplified, allowed_package_prefix)
GetProjectName ==
    /\ pc = "alias"
    /\ base_alias' = get_project_name(simplified, allowed_package_prefix)
    /\ pc' = "named"
    /\ UNCHANGED <<input, G, nodes_defined, script, package_list, hide_packages, max_depth,
                   remove_isolated, allow_all, allowed_safe_prefixes, hidden_safe_prefixes,
                   G_filtered, G_in, G_after, depths, queue, node, todo, show_version,
                   consolidated_nodes, consolidated_edges, module_name, simplified>>

NextLabel ==
    \/ SimplifyLabel
    \/ GetProjectName

SpecLabel == InitLabel /\ [][NextLabel]_vars


(***************************************************************************)
(* The isolated-node removal of main, applied twice to a subgraph of a     *)
(* graph build_graph made.                                                 *)
(***************************************************************************)
\* G_filtered is the graph built, cut down to some of its nodes
CallRemoveIsolated ==
    \E keep \in SUBSET Nodes(G) :
        /\ pc = "build"
        /\ script = "unset"
        /\ G_filtered' = subgraph(G, keep, SelectSeq(G.node, LAMBDA n : n \in keep))
        /\ remove_isolated' = TRUE
        /\ pc' = "isolated"
        /\ UNCHANGED <<input, G, nodes_defined, script, package_list, hide_packages,
                       max_depth, allow_all, allowed_safe_prefixes, hidden_safe_prefixes,
                       G_in, G_after, depths, queue, node, todo, drawing>>

\* the same two statements of main once more, on the graph they left; G_in
\* stays the graph the first removal was given
RemoveIsolatedAgain ==
    /\ pc = "draw"
    /\ script = "unset"
    /\ G_filtered' = IF isolates(G_filtered) # {}
                     THEN remove_nodes_from(G_filtered, isolates(G_filtered))
                     ELSE G_filtered
    /\ G_after' = G_filtered'
    /\ pc' = "again"
    /\ UNCHANGED <<input, G, nodes_defined, script, package_list, hide_packages, max_depth,
                   remove_isolated, allow_all, allowed_safe_prefixes, hidden_safe_prefixes,
                   G_in, depths, queue, node, todo, drawing>>

NextIsolated ==
    \/ ReadFile
    \/ CallRemoveIsolated
    \/ RemoveIsolated
    \/ RemoveIsolatedAgain

SpecIsolated == InitBuild /\ [][NextIsolated]_vars


(***************************************************************************)
(* main of gomodgraph.plantuml.py and of gomodgraph.networkx.py on a file  *)
(* made of the lines x -> y and y -> z, a line from a module whose safe id *)
(* is that of x, the line y -> x that closes a cycle, and a blank line.    *)
(***************************************************************************)
MaxScenario == 2

z2 == host \o <<"b", "/", "z", "@", "v", "2">>
xu == host \o <<"a", "_", "x", "@", "v", "1">>

line_xy == x1 \o sp \o y1 \o nl
line_yz == y1 \o sp \o z2 \o nl

ScenarioLines == {line_xy, line_yz, xu \o sp \o z2 \o nl, y1 \o sp \o x1 \o nl, nl}

\* values of --packages, and of the orgs argument split at its commas
ScenarioPackageArgs ==
    { <<star>>,
      <<host \o <<"a", "/", "y">>, host \o <<"b">>>>,
      <<host \o <<"a", "/", "x">>>>,
      <<<<"c">>>> }

\* values of --hide-packages
ScenarioHideArgs == { <<>>, <<host \o <<"a", "_", "x">>>> }

\* values of --max-depth
ScenarioMaxDepthArgs == {None, <<0>>, <<1>>}

\* main of gomodgraph.plantuml.py and of gomodgraph.pyvis.py up to build_graph
ParseArgsScenario ==
    \E sc \in {"plantuml", "pyvis"}, pl \in ScenarioPackageArgs, hide \in ScenarioHideArgs,
       md \in ScenarioMaxDepthArgs, iso \in BOOLEAN :
        /\ pc = "start"
        /\ pc' = "build"
        /\ script' = sc
        /\ package_list' = pl
        /\ hide_packages' = hide
        /\ max_depth' = md
        /\ remove_isolated' = iso
        /\ allow_all' = Contains(pl, star)
        /\ allowed_safe_prefixes' = IF Contains(pl, star) THEN <<>> ELSE safe_prefixes(pl)
        /\ hidden_safe_prefixes' = IF hide # <<>> THEN safe_prefixes(hide) ELSE <<>>
        /\ UNCHANGED <<input, G, nodes_defined, G_filtered, G_in, G_after, depths, queue,
                       node, todo, drawing>>

\* main of gomodgraph.networkx.py up to build_graph
ParseArgsScenarioOrgs ==
    \E orgs \in ScenarioPackageArgs, md \in ScenarioMaxDepthArgs, iso \in BOOLEAN :
        LET ol == org_list(orgs) IN
        /\ pc = "start"
        /\ pc' = "build"
        /\ script' = "networkx"
        /\ package_list' = ol
        /\ hide_packages' = <<>>
        /\ max_depth' = md
        /\ remove_isolated' = iso
        /\ allow_all' = Contains(ol, star)
        /\ allowed_safe_prefixes' = IF Contains(ol, star) THEN <<>> ELSE safe_prefixes(ol)
        /\ hidden_safe_prefixes' = <<>>
        /\ UNCHANGED <<input, G, nodes_defined, G_filtered, G_in, G_after, depths, queue,
                       node, todo, drawing>>

\* build_graph reading the next line of a file of at most MaxScenario lines
ReadScenario ==
    \E line \in ScenarioLines :
        /\ Len(input) < MaxScenario
        /\ ReadLine(line)
        /\ input' = Append(input, line)

NextScenario ==
    \/ ParseArgsScenario
    \/ ParseArgsScenarioOrgs
    \/ ReadScenario
    \/ EndOfFile
    \/ FilterPackages
    \/ FilterOrgs
    \/ FilterMaxDepth
    \/ SkipMaxDepth
    \/ RemoveIsolated
    \/ SkipRemoveIsolated
    \/ DrawPlantuml

SpecScenario == Init /\ [][NextScenario]_vars


(***************************************************************************)
(* main up to the prefix filter, on a file of one line that names one      *)
(* module and with one allow or hide prefix, both made of at most MaxName  *)
(* characters.                                                             *)
(***************************************************************************)
MaxName == 2

RECURSIVE Names(_)
\* the non-empty strings of at most k characters out of a, b, /
Names(k) ==
    IF k = 1 THEN {<<ch>> : ch \in {"a", "b", "/"}}
    ELSE Names(k - 1) \cup {Append(w, ch) : w \in Names(k - 1), ch \in {"a", "b", "/"}}

\* main up to build_graph: --packages p, or --hide-packages p, or the orgs
\* argument p of gomodgraph.networkx.py
ParseArgsMatch ==
    \E p \in Names(MaxName), arg \in {"packages", "hide_packages", "orgs"} :
        LET pl   == IF arg = "hide_packages" THEN <<star>>
                    ELSE IF arg = "orgs" THEN org_list(<<p>>) ELSE <<p>>
            hide == IF arg = "hide_packages" THEN <<p>> ELSE <<>>
        IN  /\ pc = "start"
            /\ pc' = "build"
            /\ script' = IF arg = "orgs" THEN "networkx" ELSE "plantuml"
            /\ package_list' = pl
            /\ hide_packages' = hide
            /\ max_depth' = None
            /\ remove_isolated' = FALSE
            /\ allow_all' = Contains(pl, star)
            /\ allowed_safe_prefixes' = IF Contains(pl, star) THEN <<>> ELSE safe_prefixes(pl)
            /\ hidden_safe_prefixes' = IF hide # <<>> THEN safe_prefixes(hide) ELSE <<>>
            /\ UNCHANGED <<input, G, nodes_defined, G_filtered, G_in, G_after, depths,
                           queue, node, todo, drawing>>

\* build_graph reading the one line `r r`
ReadMatch ==
    \E r \in Names(MaxName) :
        /\ input = <<>>
        /\ ReadLine(r \o sp \o r \o nl)
        /\ input' = <<r \o sp \o r \o nl>>

NextMatch ==
    \/ ParseArgsMatch
    \/ ReadMatch
    \/ EndOfFile
    \/ FilterPackages
    \/ FilterOrgs

SpecMatch == Init /\ [][NextMatch]_vars


(***************************************************************************)
(* filter_graph_by_max_depth called on the graph built, and then either    *)
(* called again on its own result with the same bound, or called on the    *)
(* graph built with the bound one higher.  G_filtered is the result of the *)
(* first call and G_after the result of the second.                        *)
(***************************************************************************)
\* G_filtered = filter_graph_by_max_depth(G, k)
FilterOnce ==
    \E k \in {0, 1, 2} :
        /\ pc = "build"
        /\ script = "unset"
        /\ max_depth' = <<k>>
        /\ depths' = compute_depths(G)
        /\ \E order \in subgraph_orders(G, nodes_in_range(compute_depths(G), k)) :
              G_filtered' = filter_graph_by_max_depth(G, k, order)
        /\ G_in' = G
        /\ G_after' = G
        /\ pc' = "once"
        /\ UNCHANGED <<input, G, nodes_defined, script, package_list, hide_packages,
                       remove_isolated, allow_all, allowed_safe_prefixes,
                       hidden_safe_prefixes, queue, node, todo, drawing>>

\* filter_graph_by_max_depth(G_filtered, k)
FilterAgain ==
    /\ pc = "once"
    /\ depths' = compute_depths(G_filtered)
    /\ \E order \in subgraph_orders(G_filtered,
                                    nodes_in_range(compute_depths(G_filtered), max_depth[1])) :
          G_after' = filter_graph_by_max_depth(G_filtered, max_depth[1], order)
    /\ G_in' = G_filtered
    /\ pc' = "twice"
    /\ UNCHANGED <<input, G, nodes_defined, script, package_list, hide_packages, max_depth,
                   remove_isolated, allow_all, allowed_safe_prefixes, hidden_safe_prefixes,
                   G_filtered, queue, node, todo, drawing>>

\* filter_graph_by_max_depth(G, k + 1)
FilterWider ==
    /\ pc = "once"
    /\ \E order \in subgraph_orders(G, nodes_in_range(compute_depths(G), max_depth[1] + 1)) :
          G_after' = filter_graph_by_max_depth(G, max_depth[1] + 1, order)
    /\ pc' = "wider"
    /\ UNCHANGED <<input, G, nodes_defined, script, package_list, hide_packages, max_depth,
                   remove_isolated, allow_all, allowed_safe_prefixes, hidden_safe_prefixes,
                   G_filtered, G_in, depths, queue, node, todo, drawing>>

NextTwice ==
    \/ ReadFile
    \/ FilterOnce
    \/ FilterAgain
    \/ FilterWider

SpecTwice == InitBuild /\ [][NextTwice]_vars


RECURSIVE build_graph(_)
\* build_graph on a whole file: the loop body on every line in turn
build_graph(lines) ==
    IF lines = <<>> THEN [G |-> DiGraph, nodes_defined |-> <<>>]
    ELSE LET r == build_graph(SubSeq(lines, 1, Len(lines) - 1))
         IN  build_line(r.G, r.nodes_defined, lines[Len(lines)])

(***************************************************************************)
(* Claims about build_graph.                                               *)
(***************************************************************************)
\* the positions of a line where a whitespace-separated token starts
TokenStarts(line) ==
    {i \in 1..Len(line) :
        /\ line[i] \notin Whitespace
        /\ (i = 1 \/ line[i - 1] \in Whitespace)}

\* a line that, trimmed, is not empty, does not begin with '#' and has two tokens
WellFormed(line) ==
    /\ Cardinality(TokenStarts(line)) = 2
    /\ \A i \in TokenStarts(line) :
          (\A j \in 1..(i - 1) : line[j] \in Whitespace) => line[i] # "#"

\* the lines of a file without the repetitions of a line already seen
Dedup(lines) ==
    SelectSeq([i \in 1..Len(lines) |-> <<i, lines[i]>>],
              LAMBDA p : \A j \in 1..(p[1] - 1) : lines[j] # p[2])

DedupLines(lines) == [i \in 1..Len(Dedup(lines)) |-> Dedup(lines)[i][2]]

\* C9: a file with repeated lines gives the node set and the edge set of the
\* file with every line kept once, and no edge is held twice.
C9_RepeatedLinesInsensitive ==
    LET once == build_graph(DedupLines(input)).G
    IN  /\ Nodes(G) = Nodes(once)
        /\ Edges(G) = Edges(once)
        /\ Cardinality(Edges(G)) = Len(G.edge)
        /\ Cardinality(Nodes(G)) = Len(G.node)

C9_Witness ==
    \E i \in 1..Len(input) : \E j \in 1..Len(input) :
        /\ i < j
        /\ input[i] = input[j]
        /\ WellFormed(input[i])
        /\ Len(G.edge) = 2

\* C10: the graph built from a file is the graph built from its well-formed
\* lines alone: the other lines add no node and no edge.
C10_MalformedLinesIgnored ==
    LET good == build_graph(SelectSeq(input, WellFormed))
    IN  /\ G = good.G
        /\ nodes_defined = good.nodes_defined
        /\ DOMAIN nodes_defined = Nodes(G)

C10_Witness ==
    /\ Len(input) = MaxLines
    /\ \E i \in 1..Len(input) : ~WellFormed(input[i])
    /\ \E i \in 1..Len(input) : WellFormed(input[i])
    /\ Len(G.edge) >= 1

(***************************************************************************)
(* Claims about compute_depths and filter_graph_by_max_depth.              *)
(***************************************************************************)
\* filter_graph_by_max_depth has returned from a direct call on the graph built
MaxDepthReturned == pc = "isolated" /\ script = "unset"

\* the nodes of N without an incoming edge in E, or all of N when there is none
RootSet(N, E) ==
    LET top == {n \in N : \A e \in E : e[2] # n}
    IN  IF top = {} THEN N ELSE top

RECURSIVE Within(_, _, _)
\* the nodes a directed path of at most k edges of E reaches from the root set
Within(N, E, k) ==
    IF k = 0 THEN RootSet(N, E)
    ELSE LET w == Within(N, E, k - 1)
         IN  w \cup {e[2] : e \in {f \in E : f[1] \in w}}

\* the nodes some directed path reaches from the root set
Reached(N, E) == Within(N, E, Cardinality(N))

\* the length of a shortest directed path from the root set to n
Dist(N, E, n) ==
    CHOOSE k \in 0..Cardinality(N) :
        /\ n \in Within(N, E, k)
        /\ (k = 0 \/ n \notin Within(N, E, k - 1))

\* the edges of E that join two nodes of N
Induced(E, N) == {e \in E : e[1] \in N /\ e[2] \in N}

\* C1: the graph filter_graph_by_max_depth returns has exactly the nodes whose
\* computed depth is at most max_depth, and exactly the edges of its input
\* that join two of them.
C1_MaxDepthInducedSubgraph ==
    MaxDepthReturned =>
        /\ Nodes(G_filtered) =
              {n \in Nodes(G_in) : n \in DOMAIN depths /\ depths[n] <= max_depth[1]}
        /\ Edges(G_filtered) = Induced(Edges(G_in), Nodes(G_filtered))
        /\ Cardinality(Nodes(G_filtered)) = Len(G_filtered.node)

C1_Witness ==
    /\ MaxDepthReturned
    /\ Nodes(G_filtered) # Nodes(G_in)
    /\ Edges(G_filtered) # {}
    /\ Edges(G_filtered) # Edges(G_in)

\* C2: every depth compute_depths records is the length of a shortest directed
\* path from the root set (the nodes without incoming edge, or all nodes when
\* there is none), and every root has depth 0.
C2_DepthIsShortestPath ==
    MaxDepthReturned =>
        /\ \A n \in DOMAIN depths :
              /\ n \in Reached(Nodes(G_in), Edges(G_in))
              /\ depths[n] = Dist(Nodes(G_in), Edges(G_in), n)
        /\ \A r \in RootSet(Nodes(G_in), Edges(G_in)) : r \in DOMAIN depths /\ depths[r] = 0

C2_Witness ==
    /\ MaxDepthReturned
    /\ \E n \in DOMAIN depths : depths[n] = 2
    /\ \E n \in DOMAIN depths : in_degree(G_in, n) = 2

\* C3: compute_depths gives every node of its graph a depth >= 0, so a bound of
\* at least the number of nodes keeps the whole graph.
C3_EveryNodeHasDepth ==
    MaxDepthReturned =>
        /\ DOMAIN depths = Nodes(G_in)
        /\ \A n \in DOMAIN depths : depths[n] >= 0
        /\ max_depth[1] >= Cardinality(Nodes(G_in)) =>
              /\ Nodes(G_filtered) = Nodes(G_in)
              /\ Edges(G_filtered) = Edges(G_in)

(***************************************************************************)
(* Claims about the prefix filters and the order of the stages.            *)
(***************************************************************************)
\* p is an initial segment of s
IsPrefix(p, s) == Len(p) <= Len(s) /\ \A i \in 1..Len(p) : p[i] = s[i]

\* the normalized identifier stored with node n of G starts with one of the prefixes
Matches(n, prefixes) == \E i \in 1..Len(prefixes) : IsPrefix(prefixes[i], G.safe[n])

\* the prefix filter has just returned
PrefixFiltered == pc = "max_depth"

\* the nodes of the raw graph the allow stage keeps
RefAllowed == IF allow_all THEN Nodes(G) ELSE {n \in Nodes(G) : Matches(n, allowed_safe_prefixes)}

\* the nodes the hide stage keeps after it
RefShown == {n \in RefAllowed : ~Matches(n, hidden_safe_prefixes)}

\* the nodes the max-depth stage keeps after it
RefInRange ==
    IF max_depth = None THEN RefShown
    ELSE LET E == Induced(Edges(G), RefShown)
         IN  {n \in Reached(RefShown, E) : Dist(RefShown, E, n) <= max_depth[1]}

\* the nodes the isolated-node removal keeps after it
RefConnected ==
    IF remove_isolated
    THEN {n \in RefInRange : \E e \in Induced(Edges(G), RefInRange) : e[1] = n \/ e[2] = n}
    ELSE RefInRange

\* C4: the graph handed to the renderer is the raw graph after the allow, the
\* hide, the max-depth and the isolated-node stage in that order, so with
\* isolated removal requested none of its nodes is without an edge.
C4_StagesInOrderNoIsolated ==
    pc = "draw" =>
        /\ Nodes(G_filtered) = RefConnected
        /\ Edges(G_filtered) = Induced(Edges(G), RefConnected)
        /\ remove_isolated =>
              \A n \in Nodes(G_filtered) :
                  in_degree(G_filtered, n) + out_degree(G_filtered, n) > 0

C4_Witness ==
    /\ pc = "draw"
    /\ remove_isolated
    /\ max_depth # None
    /\ Nodes(G_in) # Nodes(G)
    /\ \E n \in Nodes(G_in) \ Nodes(G_filtered) : in_degree(G, n) + out_degree(G, n) > 0

\* C5: without allow_all (and with nothing hidden) the prefix filter keeps
\* exactly the nodes whose normalized identifier starts with one of the
\* prefixes and the edges between them; no prefix, empty graph.
C5_AllowedPrefixesExact ==
    (PrefixFiltered /\ ~allow_all /\ hidden_safe_prefixes = <<>>) =>
        /\ Nodes(G_filtered) = {n \in Nodes(G) : Matches(n, allowed_safe_prefixes)}
        /\ Edges(G_filtered) = Induced(Edges(G), Nodes(G_filtered))
        /\ allowed_safe_prefixes = <<>> => G_filtered.node = <<>> /\ G_filtered.edge = <<>>

C5_Witness ==
    /\ PrefixFiltered
    /\ ~allow_all
    /\ hidden_safe_prefixes = <<>>
    /\ Len(allowed_safe_prefixes) = 2
    /\ Nodes(G_filtered) # Nodes(G)
    /\ Edges(G_filtered) # {}
    /\ Edges(G_filtered) # Edges(G)

\* both prefix filters have been applied, in one order or the other
BothFiltersApplied == pc \in {"allowed_hidden", "hidden_allowed"}

\* some node matches an allowed prefix and a hidden prefix
Overlap ==
    \E n \in Nodes(G) : Matches(n, allowed_safe_prefixes) /\ Matches(n, hidden_safe_prefixes)

\* C6 as claimed: whichever of the two filters is applied first, the result is
\* the subgraph induced by the nodes that match an allowed prefix (or all,
\* under allow_all) and no hidden prefix.
C6_FilterOrderIndependent ==
    BothFiltersApplied =>
        /\ Nodes(G_filtered) = RefShown
        /\ Edges(G_filtered) = Induced(Edges(G), RefShown)

\* C6 as amended: hide after allow always gives that subgraph; hide before
\* allow gives it under allow_all or when no node matches both an allowed and
\* a hidden prefix.
C6_FilterOrderIndependentIfDisjoint ==
    (BothFiltersApplied /\ (pc = "allowed_hidden" \/ allow_all \/ ~Overlap)) =>
        /\ Nodes(G_filtered) = RefShown
        /\ Edges(G_filtered) = Induced(Edges(G), RefShown)

C6_Witness ==
    /\ pc = "hidden_allowed"
    /\ ~allow_all
    /\ ~Overlap
    /\ \E n \in Nodes(G) : Matches(n, hidden_safe_prefixes)
    /\ Nodes(G_in) # Nodes(G)
    /\ Edges(G_filtered) # {}

\* C7: with allow_all and nothing hidden the prefix filter returns the node
\* set and the edge set of its input, whatever the prefix list.
C7_AllowAllIsIdentity ==
    (PrefixFiltered /\ allow_all /\ hidden_safe_prefixes = <<>>) =>
        /\ Nodes(G_filtered) = Nodes(G)
        /\ Edges(G_filtered) = Edges(G)

C7_Witness ==
    /\ PrefixFiltered
    /\ allow_all
    /\ hidden_safe_prefixes = <<>>
    /\ Len(package_list) = 2
    /\ Len(G.edge) = MaxLines
    /\ \E n \in Nodes(G) : ~IsPrefix(<<"a">>, n)

\* C8: in the raw graph after any number of lines and in the graph every
\* stage returns, both endpoints of every edge are nodes of the graph.
C8_EdgeEndpointsAreNodes ==
    /\ \A e \in Edges(G) : e[1] \in Nodes(G) /\ e[2] \in Nodes(G)
    /\ \A e \in Edges(G_filtered) : e[1] \in Nodes(G_filtered) /\ e[2] \in Nodes(G_filtered)
    /\ DOMAIN G.safe = Nodes(G)
    /\ DOMAIN G_filtered.safe = Nodes(G_filtered)

C8_Witness ==
    /\ pc = "draw"
    /\ ~allow_all
    /\ hidden_safe_prefixes # <<>>
    /\ max_depth # None
    /\ remove_isolated
    /\ Edges(G_filtered) # {}
    /\ Edges(G_filtered) # Edges(G)


(***************************************************************************)
(* Claims about consolidation, for draw_and_save_graph_plantuml at the end *)
(* of main on a file of module names with versions.                        *)
(***************************************************************************)
\* draw_and_save_graph_plantuml has filled its dict and its set
Drawn == pc = "done"

\* the label the node loop computes for a node
LabelOf(n) == simplify_label(n, allowed_package_prefix)

\* the alias the two loops compute for a node
KeyOf(n) ==
    get_project_name(LabelOf(n), allowed_package_prefix)

\* the first ten characters of the target's version when versions are shown
RefAnnotation(v) ==
    IF show_version /\ \E i \in 1..Len(v) : v[i] = "@"
    THEN LET at == CHOOSE i \in 1..Len(v) : v[i] = "@" /\ \A j \in 1..(i - 1) : v[j] # "@"
             n  == IF Len(v) - at < 10 THEN Len(v) - at ELSE 10
         IN  <<" ", ":", " ">> \o [i \in 1..n |-> v[at + i]]
    ELSE <<>>

\* how many times x is in the sequence
Count(seq, x) == Cardinality({i \in 1..Len(seq) : seq[i] = x})

\* C11: every raw edge of the graph drawn whose two keys differ is in the
\* consolidated edge set exactly once, as (source key, target key, annotation),
\* however many raw edges map to that triple.
C11_DuplicatesCollapse ==
    Drawn =>
        \A e \in Edges(G_filtered) :
            KeyOf(e[1]) # KeyOf(e[2]) =>
                Count(consolidated_edges,
                      <<KeyOf(e[1]), KeyOf(e[2]), RefAnnotation(e[2])>>) = 1

\* two raw edges from different nodes of one key to one node of another key
C11_Witness ==
    /\ Drawn
    /\ \E e \in Edges(G_filtered) : \E f \in Edges(G_filtered) :
          /\ e[1] # f[1]
          /\ e[2] = f[2]
          /\ KeyOf(e[1]) = KeyOf(f[1])
          /\ KeyOf(e[1]) # KeyOf(e[2])

\* the two nodes of the edge have the same key
SameKey(e) == KeyOf(e[1]) = KeyOf(e[2])

\* the edge a line of two tokens asks for
LineEdge(line) == LET parts == split(strip(line)) IN <<parts[1], parts[2]>>

\* C12: a self-loop or an edge between two nodes of one key is in the graph
\* built once its line is read, stays in the result of every stage that keeps
\* both its nodes, and no consolidated edge has the same key at both ends.
C12_SameKeyEdgesDroppedOnlyByConsolidation ==
    /\ \A i \in 1..Len(input) :
          LET e == LineEdge(input[i]) IN e \notin Edges(G) => ~SameKey(e)
    /\ pc \in {"max_depth", "isolated", "draw", "done"} =>
          \A e \in Edges(G_in) :
              (e \notin Edges(G_filtered) /\ e[1] \in Nodes(G_filtered)
                                          /\ e[2] \in Nodes(G_filtered)) => ~SameKey(e)
    /\ Drawn => \A i \in 1..Len(consolidated_edges) :
                    consolidated_edges[i][1] # consolidated_edges[i][2]

\* an edge between two different nodes of one key reached the drawing through
\* the max-depth filter and the isolated-node removal
C12_Witness ==
    /\ Drawn
    /\ max_depth # None
    /\ remove_isolated
    /\ \E e \in Edges(G_filtered) : e[1] # e[2] /\ SameKey(e)

\* C13: with versions shown there is at most one consolidated edge for every
\* ordered pair of keys.
C13_OneAnnotationPerPair ==
    (Drawn /\ show_version) =>
        \A i \in 1..Len(consolidated_edges) : \A j \in 1..Len(consolidated_edges) :
            (/\ consolidated_edges[i][1] = consolidated_edges[j][1]
             /\ consolidated_edges[i][2] = consolidated_edges[j][2]) => i = j

\* the first node with key k, in the order the graph lists its nodes
FirstWithKey(g, k) ==
    LET at == CHOOSE i \in 1..Len(g.node) :
                  /\ KeyOf(g.node[i]) = k
                  /\ \A j \in 1..(i - 1) : KeyOf(g.node[j]) # k
    IN  g.node[at]

\* C14: the keys of the dict are the keys of the nodes drawn, and the label
\* kept for a key is the simplified label of the first node with that key.
C14_FirstSeenLabelWins ==
    Drawn =>
        /\ DOMAIN consolidated_nodes = {KeyOf(n) : n \in Nodes(G_filtered)}
        /\ \A k \in DOMAIN consolidated_nodes :
              consolidated_nodes[k] = LabelOf(FirstWithKey(G_filtered, k))

\* a later node has the key of an earlier one and another simplified label
C14_Witness ==
    /\ Drawn
    /\ \E i \in 1..Len(G_filtered.node) : \E j \in 1..Len(G_filtered.node) :
          /\ i < j
          /\ KeyOf(G_filtered.node[i]) = KeyOf(G_filtered.node[j])
          /\ LabelOf(G_filtered.node[i]) # LabelOf(G_filtered.node[j])

\* C15: the dict and the edge set drawn are what every other order of the
\* surviving nodes would have given.
C15_Deterministic ==
    Drawn =>
        \A order \in Perms(Nodes(G_filtered)) :
            /\ consolidate_nodes(order, allowed_package_prefix) = consolidated_nodes
            /\ Range(consolidate_edges(edges_from(G_filtered, order), allowed_package_prefix,
                                       show_version)) = Range(consolidated_edges)


(***************************************************************************)
(* Claims about the consolidation key of one module name.                  *)
(***************************************************************************)
\* the longest prefix of s that holds no ch
RefUpTo(s, ch) ==
    LET k == CHOOSE k \in 0..Len(s) :
                 /\ \A i \in 1..k : s[i] # ch
                 /\ (k = Len(s) \/ s[k + 1] = ch)
    IN  SubSeq(s, 1, k)

\* s from its first to its last character other than ch
RefTrim(s, ch) ==
    LET idx == {i \in 1..Len(s) : s[i] # ch}
    IN  IF idx = {} THEN <<>>
        ELSE SubSeq(s, CHOOSE i \in idx : \A j \in idx : i <= j,
                       CHOOSE i \in idx : \A j \in idx : j <= i)

\* the identifier without the host prefix, the version and the outer separators
RefPath(id) ==
    LET hostless == IF IsPrefix(host, id) THEN SubSeq(id, Len(host) + 1, Len(id)) ELSE id
    IN  RefTrim(RefUpTo(hostless, "@"), "/")

\* the project segment: what follows the first separator, or the whole path
RefProject(id) ==
    LET path == RefPath(id)
    IN  IF \E i \in 1..Len(path) : path[i] = "/"
        THEN SubSeq(path, Len(RefUpTo(path, "/")) + 2, Len(path))
        ELSE path

\* every run of non-alphanumeric characters replaced by one "_"
RefCollapse(s) ==
    LET keep == {i \in 1..Len(s) : s[i] \in Alnum \/ i = 1 \/ s[i - 1] \in Alnum}
        at(k) == CHOOSE i \in keep : Cardinality({j \in keep : j <= i}) = k
    IN  [k \in 1..Cardinality(keep) |-> IF s[at(k)] \in Alnum THEN s[at(k)] ELSE "_"]

\* the consolidation key of the data model
RefKey(id) == RefTrim(RefCollapse(RefProject(id)), "_")

\* get_project_name has returned the alias of module_name
Named == pc = "named"

Plain(id) ==
    /\ \A i \in 1..Len(id) : id[i] # "|"
    /\ ~IsPrefix(host, RefProject(id))

C17_DepthMonotone ==
    MaxDepthReturned =>
        \A e \in Edges(G_filtered) :
            /\ e[1] \in DOMAIN depths
            /\ e[2] \in DOMAIN depths
            /\ depths[e[2]] <= depths[e[1]] + 1

\* the result has an edge that goes one level down and an edge that does not
C17_Witness ==
    /\ MaxDepthReturned
    /\ \E e \in Edges(G_filtered) : depths[e[2]] = depths[e[1]] + 1
    /\ \E e \in Edges(G_filtered) : depths[e[2]] < depths[e[1]] + 1

\* the nodes of g that no edge of g starts or ends at
RefIsolated(g) == {n \in Nodes(g) : \A e \in Edges(g) : e[1] # n /\ e[2] # n}

\* C18: after one removal and after two, the graph has the nodes of the graph
\* given that some edge starts or ends at (a self-loop included), and its edges.
C18_RemoveIsolatedIdempotent ==
    pc \in {"draw", "again"} =>
        /\ Nodes(G_filtered) = Nodes(G_in) \ RefIsolated(G_in)
        /\ Edges(G_filtered) = Edges(G_in)

\* removed twice from a graph with an isolated node and a node whose only
\* edge is a self-loop
C18_Witness ==
    /\ pc = "again"
    /\ RefIsolated(G_in) # {}
    /\ \E n \in Nodes(G_filtered) :
          \A e \in Edges(G_filtered) : (e[1] = n \/ e[2] = n) => e = <<n, n>>

RefNormalized(s, t) ==
    /\ Len(t) = Len(s)
    /\ \A i \in 1..Len(s) : (s[i] \in Alnum => t[i] = s[i]) /\ (s[i] \notin Alnum => t[i] = "_")

\* C20: safe_id substitutes character by character and is idempotent, on every
\* name of at most MaxPieces pieces (a fact about safe_id alone, looked at once,
\* before main has done anything) and on every module name of the file; the
\* safe id kept with every node of the graph built and of the graph every
\* stage leaves, and in nodes_defined, is safe_id of the node's name.
C20_SafeIdCharacterwise ==
    /\ \A s \in (IF pc = "start" THEN Texts(MaxPieces) ELSE {}) \cup DOMAIN nodes_defined :
          /\ RefNormalized(s, safe_id(s))
          /\ safe_id(safe_id(s)) = safe_id(s)
    /\ \A n \in Nodes(G) :
          /\ RefNormalized(n, G.safe[n])
          /\ RefNormalized(n, nodes_defined[n])
    /\ \A n \in Nodes(G_filtered) : RefNormalized(n, G_filtered.safe[n])

\* the graph drawn went through all three stages and has a node
C20_Witness ==
    /\ Drawn
    /\ max_depth # None
    /\ remove_isolated
    /\ ~allow_all
    /\ \E n \in Nodes(G_filtered) : G_filtered.safe[n] # n


(***************************************************************************)
(* Claims about main run on the file of the scenario.                      *)
(***************************************************************************)
\* main was given the two lines x -> y and y -> z, every package allowed,
\* nothing hidden, isolated nodes kept
TwoLineScenario ==
    /\ input = <<line_xy, line_yz>>
    /\ allow_all
    /\ hide_packages = <<>>
    /\ ~remove_isolated

\* C21: on the lines x -> y and y -> z, with every package allowed, nothing
\* hidden and isolated nodes kept, the raw graph has the 3 nodes x, y, z and
\* the 2 edges x -> y, y -> z, the depths are 0, 1, 2, and with max depth 1
\* the filtered graph has exactly the nodes x, y and the edge x -> y.
C21_ScenarioDepthOne ==
    TwoLineScenario =>
        /\ Nodes(G) = {x1, y1, z2} /\ Len(G.node) = 3
        /\ Edges(G) = {<<x1, y1>>, <<y1, z2>>} /\ Len(G.edge) = 2
        /\ (pc \in {"isolated", "draw", "done"} /\ max_depth # None) =>
              /\ DOMAIN depths = {x1, y1, z2}
              /\ depths[x1] = 0 /\ depths[y1] = 1 /\ depths[z2] = 2
        /\ (pc \in {"isolated", "draw", "done"} /\ max_depth = <<1>>) =>
              /\ Nodes(G_filtered) = {x1, y1} /\ Len(G_filtered.node) = 2
              /\ G_filtered.edge = <<<<x1, y1>>>>

C21_Witness ==
    /\ TwoLineScenario
    /\ pc = "done"
    /\ max_depth = <<1>>
    /\ Nodes(G_filtered) = {x1, y1}

\* a stage of main is about to run on a graph without nodes
EmptyGraphAtStage ==
    /\ pc \in {"max_depth", "isolated", "draw"}
    /\ G_filtered.node = <<>>

\* C22: when no node is left (the filters removed every node, or the input
\* had no well-formed line), the max-depth filter, the isolated-node removal
\* and the consolidation each complete, and they yield no node and no edge.
C22_EmptyResultIsNotAnError ==
    /\ []((EmptyGraphAtStage /\ (pc = "draw" => script = "plantuml")) => ENABLED NextScenario)
    /\ [][EmptyGraphAtStage =>
              /\ pc' # pc
              /\ G_filtered' = DiGraph
              /\ consolidated_nodes' = <<>>
              /\ consolidated_edges' = <<>>]_vars

C22_Witness ==
    /\ pc = "done"
    /\ G.edge # <<>>
    /\ G_filtered = DiGraph
    /\ max_depth # None
    /\ remove_isolated
    /\ consolidated_nodes = <<>>
    /\ consolidated_edges = <<>>

\* C23: the depths the max-depth pruning uses are those of the prefix-filtered
\* graph, not of the raw graph: a kept node all of whose predecessors the
\* prefix filter removed is a root of depth 0, every depth is the length of a
\* shortest path inside the prefix-filtered graph, and the pruning keeps the
\* nodes and edges within the bound by these depths.
C23_DepthsOfFilteredGraph ==
    (pc = "isolated" /\ max_depth # None) =>
        /\ \A n \in RefShown :
              (\A e \in Edges(G) : e[2] = n => e[1] \notin RefShown) =>
                  n \in DOMAIN depths /\ depths[n] = 0
        /\ \A n \in DOMAIN depths :
              n \in RefShown /\ depths[n] = Dist(RefShown, Induced(Edges(G), RefShown), n)
        /\ Nodes(G_filtered) = {n \in DOMAIN depths : depths[n] <= max_depth[1]}
        /\ Edges(G_filtered) = Induced(Induced(Edges(G), RefShown), Nodes(G_filtered))

C23_Witness ==
    /\ pc = "isolated"
    /\ max_depth # None
    /\ \E n \in Nodes(G_filtered) :
          /\ in_degree(G, n) > 0
          /\ depths[n] = 0
          /\ compute_depths(G)[n] > 0
    /\ \E n \in Nodes(G_filtered) : compute_depths(G)[n] > max_depth[1]
    /\ Edges(G_filtered) # {}

\* C26: two different raw identifiers with the same normalized identifier are
\* two nodes of the raw graph build_graph returns, each with the edges of its
\* own lines; no stage merges nodes or moves edges; and the prefix filter
\* keeps both or drops both.
C26_CollisionsNotDeduplicated ==
    LET colliding == {p \in (DOMAIN nodes_defined) \X (DOMAIN nodes_defined) :
                         p[1] # p[2] /\ nodes_defined[p[1]] = nodes_defined[p[2]]}
    IN  colliding # {} =>
            /\ \A p \in colliding :
                  /\ safe_id(p[1]) = safe_id(p[2])
                  /\ Count(G.node, p[1]) = 1 /\ Count(G.node, p[2]) = 1
                  /\ PrefixFiltered =>
                        (p[1] \in Nodes(G_filtered) <=> p[2] \in Nodes(G_filtered))
            /\ pc = "filter" =>
                  Edges(G) = {LineEdge(input[i]) :
                                 i \in {j \in 1..Len(input) : WellFormed(input[j])}}
            /\ pc \in {"max_depth", "isolated", "draw", "done"} =>
                  /\ Nodes(G_filtered) \subseteq Nodes(G)
                  /\ Cardinality(Nodes(G_filtered)) = Len(G_filtered.node)
                  /\ Edges(G_filtered) = Induced(Edges(G), Nodes(G_filtered))

C26_Witness ==
    /\ PrefixFiltered
    /\ ~allow_all
    /\ x1 # xu /\ safe_id(x1) = safe_id(xu)
    /\ <<x1, y1>> \in Edges(G) /\ <<xu, z2>> \in Edges(G)
    /\ Nodes(G_filtered) = {x1, xu}

\* the prefix filter of the script(s) main is not running, called on main's
\* arguments with no hide list
OtherPrefixFilter ==
    LET keep  == IF allow_all THEN Nodes(G)
                 ELSE {n \in DOMAIN nodes_defined :
                          any_prefix(nodes_defined[n], allowed_safe_prefixes)}
        order == CHOOSE o \in Perms(keep) : TRUE
    IN  IF script = "networkx"
        THEN filter_graph_by_packages(G, nodes_defined, allowed_safe_prefixes, <<>>,
                                      allow_all, order)
        ELSE filter_graph_by_orgs(G, nodes_defined, allowed_safe_prefixes, allow_all, order)

\* the max-depth stage of main after it
OtherMaxDepth ==
    LET g == OtherPrefixFilter
    IN  IF max_depth = None THEN g
        ELSE filter_graph_by_max_depth(g, max_depth[1],
                 CHOOSE o \in subgraph_orders(g, nodes_in_range(compute_depths(g),
                                                                max_depth[1])) : TRUE)

\* the isolated-node removal of main after it
OtherPipeline ==
    LET g == OtherMaxDepth
    IN  IF remove_isolated /\ isolates(g) # {} THEN remove_nodes_from(g, isolates(g)) ELSE g

SameGraph(g, h) == Nodes(g) = Nodes(h) /\ Edges(g) = Edges(h)

\* C30: with no hide list, the graph main of one script holds after each stage
\* has the node and edge sets the stages give when the prefix filter is the
\* one of the other scripts (filter_graph_by_orgs for plantuml and pyvis,
\* filter_graph_by_packages for networkx), whatever the raw graph, the allow
\* list, the allow-all flag, the maximum depth and the isolated flag.
C30_ScriptsFilterAlike ==
    hide_packages = <<>> =>
        /\ pc = "max_depth" => SameGraph(G_filtered, OtherPrefixFilter)
        /\ pc = "isolated" => SameGraph(G_filtered, OtherMaxDepth)
        /\ pc = "draw" => SameGraph(G_filtered, OtherPipeline)

C30_Witness ==
    /\ pc = "draw"
    /\ script = "networkx"
    /\ ~allow_all
    /\ max_depth # None
    /\ remove_isolated
    /\ Nodes(G_filtered) # Nodes(G)
    /\ Edges(G_filtered) # {}
    /\ SameGraph(G_filtered, OtherPipeline)


(***************************************************************************)
(* Claims about prefix matching.                                           *)
(***************************************************************************)
\* normalize(r) starts with normalize(p): r is at least as long as p, and at
\* each position of p the two have the same alphanumeric character or both
\* have a character that normalization replaces by an underscore
RefNormalizedStartsWith(r, p) ==
    /\ Len(p) <= Len(r)
    /\ \A i \in 1..Len(p) : IF p[i] \in Alnum THEN r[i] = p[i] ELSE r[i] \notin Alnum

\* p without its trailing '/' characters
RefNoTrailingSlash(p) ==
    LET k == CHOOSE k \in 0..Len(p) :
                 /\ \A i \in (k + 1)..Len(p) : p[i] = "/"
                 /\ (k = 0 \/ p[k] # "/")
    IN  SubSeq(p, 1, k)

\* the one prefix main was given
GivenPrefix == IF hide_packages # <<>> THEN hide_packages[1] ELSE package_list[1]

\* the prefix filter kept r (allow prefix) or dropped it (hide prefix)
TreatedAsMatching(r) ==
    IF hide_packages # <<>> THEN r \notin Nodes(G_filtered) ELSE r \in Nodes(G_filtered)

\* C24 as stated: the prefix filter treats r as matching the prefix p, with or
\* without a trailing '/', exactly when normalize(r) starts with normalize(p).
C24_PrefixesNormalizedAsIdentifiers ==
    PrefixFiltered =>
        \A r \in Nodes(G) :
            TreatedAsMatching(r) <=> RefNormalizedStartsWith(r, GivenPrefix)

\* C24: the prefix filter treats r as matching the prefix p exactly when
\* normalize(r) starts with the normalized form of p without its trailing
\* '/' characters.
C24_PrefixesStrippedThenNormalized ==
    PrefixFiltered =>
        \A r \in Nodes(G) :
            TreatedAsMatching(r) <=>
                RefNormalizedStartsWith(r, RefNoTrailingSlash(GivenPrefix))

\* the prefix a/ is given and the module ab is kept
C24_Witness ==
    /\ PrefixFiltered
    /\ hide_packages = <<>>
    /\ GivenPrefix = <<"a", "/">>
    /\ Nodes(G) = {<<"a", "b">>}
    /\ Nodes(G_filtered) = {<<"a", "b">>}


(***************************************************************************)
(* Claims about the loop of compute_depths.                                *)
(***************************************************************************)
\* the for loop of compute_depths has appended a node to the queue
Enqueues == pc = "while" /\ Len(queue') > Len(queue)

\* C25: compute_depths, once called, returns, on graphs with cycles, with
\* self-loops and without a node of in-degree 0 too: the queue runs empty,
\* and a node is appended to it only when it gets its first depth or a
\* strictly smaller one.
C25_ComputeDepthsTerminates ==
    /\ (pc = "roots") ~> (pc = "isolated" /\ queue = <<>>)
    /\ [][Enqueues =>
              LET n == queue'[Len(queue')]
              IN  /\ Len(queue') = Len(queue) + 1
                  /\ n \in DOMAIN depths'
                  /\ n \notin DOMAIN depths \/ depths'[n] < depths[n]]_vars

\* compute_depths has returned on a graph with a self-loop and a longer
\* cycle where every node has an incoming edge
C25_Witness ==
    /\ MaxDepthReturned
    /\ queue = <<>>
    /\ \A n \in Nodes(G_in) : in_degree(G_in, n) > 0
    /\ \E e \in Edges(G_in) : e[1] = e[2]
    /\ \E e \in Edges(G_in) : e[1] # e[2] /\ <<e[2], e[1]>> \in Edges(G_in)

\* the for loop of compute_depths is about to test a neighbor that has a depth
TestsKnownNeighbor ==
    /\ pc = "while"
    /\ node # None
    /\ Head(todo) \in DOMAIN depths

\* C27: in compute_depths a node is appended to the queue only when it has no
\* depth yet (so at most once, every queued node having a depth), a recorded
\* depth never changes, a dequeued node is at least as deep as every node
\* dequeued before it, and depths[node] + 1 < depths[neighbor] is false
\* whenever the neighbor has a depth.
C27_EnqueuedOnceDepthsFinal ==
    /\ [](pc = "while" =>
            /\ \A i \in 1..Len(queue) : queue[i] \in DOMAIN depths
            /\ \A i \in 1..Len(queue) : \A j \in 1..Len(queue) : queue[i] = queue[j] => i = j)
    /\ [](TestsKnownNeighbor => ~(depths[node] + 1 < depths[Head(todo)]))
    /\ [][Enqueues => queue'[Len(queue')] \notin DOMAIN depths]_vars
    /\ [][pc = "while" =>
              \A n \in DOMAIN depths : n \in DOMAIN depths' /\ depths'[n] = depths[n]]_vars
    /\ [][(pc = "while" /\ Len(queue') < Len(queue)) =>
              /\ queue' = Tail(queue)
              /\ \A m \in DOMAIN depths \ Range(queue) : depths[m] <= depths[Head(queue)]]_vars

\* a neighbor that already has a depth and is still queued is tested after
\* nodes of depth 0 and 1 were dequeued
C27_Witness ==
    /\ TestsKnownNeighbor
    /\ depths[node] = 1
    /\ depths[Head(todo)] = 1
    /\ Head(todo) \in Range(queue)
    /\ \E m \in DOMAIN depths \ Range(queue) : depths[m] = 0
    /\ queue # <<>>


(***************************************************************************)
(* Claims about the max-depth filter applied twice.                        *)
(***************************************************************************)
\* C28: for a bound k >= 0, filtering the result of the max-depth filter again
\* with k gives the same node and edge sets, every node kept has in the
\* result the depth it had in the graph filtered, and the result for k is a
\* subgraph of the result for k + 1.
C28_MaxDepthIdempotent ==
    /\ [][(pc = "once" /\ pc' = "twice") =>
              /\ SameGraph(G_after', G_filtered)
              /\ DOMAIN depths' = Nodes(G_filtered)
              /\ \A n \in Nodes(G_filtered) : depths'[n] = depths[n]]_vars
    /\ [](pc = "wider" =>
              /\ Nodes(G_filtered) \subseteq Nodes(G_after)
              /\ Edges(G_filtered) \subseteq Edges(G_after))

\* the filter was applied twice to a graph it prunes, and a node of depth 1
\* is kept
C28_Witness ==
    /\ pc = "twice"
    /\ Nodes(G_filtered) # Nodes(G)
    /\ Edges(G_filtered) # {}
    /\ \E n \in Nodes(G_after) : depths[n] = 1


(***************************************************************************)
(* Claims about isolated-node removal followed by consolidation.           *)
(***************************************************************************)
\* C29: in a diagram drawn with --remove-isolated, every consolidated
\* component is the source or the target of a consolidated edge, and both
\* keys of every consolidated edge are consolidated components.
C29_NoIsolatedComponent ==
    (Drawn /\ remove_isolated) =>
        /\ \A k \in DOMAIN consolidated_nodes :
              \E i \in 1..Len(consolidated_edges) :
                  consolidated_edges[i][1] = k \/ consolidated_edges[i][2] = k
        /\ \A i \in 1..Len(consolidated_edges) :
              /\ consolidated_edges[i][1] \in DOMAIN consolidated_nodes
              /\ consolidated_edges[i][2] \in DOMAIN consolidated_nodes

=============================================================================
